---------------------------- MODULE Spec2Model ----------------------------
(***************************************************************************)
(* Interview scheduling bot (src/new.py).                                  *)
(*                                                                         *)
(*   parse_availability      text entities -> availability windows         *)
(*   find_overlapping_slot   windows x busy intervals -> first free slot   *)
(*   schedule / incoming_email / schedule_interview                        *)
(*                           the request lifecycle over the request store, *)
(*                           the calendar and the mailer                   *)
(*                                                                         *)
(* Time is counted in whole hours: a datetime is date * 24 + hour.         *)
(***************************************************************************)
EXTENDS Integers, Sequences, FiniteSets, TLC

VARIABLES
    db,           \* scheduling_requests table: id -> [status, availability]
    events,       \* id -> number of calendar events inserted for the request
    mail,         \* id -> [request, confirm, noslot] e-mails delivered
    pc,           \* worker -> position of its incoming_email handler
    loc,          \* worker -> locals of its incoming_email handler
    hist,         \* history: e-mails that came in, writes of each field
    fnArgs,       \* arguments of the pure function under check
    fnResult      \* its result, or NotCalled

vars == <<db, events, mail, pc, loc, hist, fnArgs, fnResult>>

appVars == <<db, events, mail, pc, loc, hist>>

fnVars == <<fnArgs, fnResult>>

-----------------------------------------------------------------------------
(* Bounds *)

\* matcher inputs: time points 0..MaxTime
MaxTime == 3

\* matcher inputs: at most MaxWin availability windows
MaxWin == 1

\* matcher inputs: at most MaxBusy busy intervals
MaxBusy == 2

\* matcher inputs: duration_hours in 1..MaxDur
MaxDur == 1

\* at most MaxReq requests are created
MaxReq == 2

\* at most MaxCalls e-mails come in
MaxCalls == 2

\* request handlers of the server
NumWorkers == 2

\* a text holds at most MaxEnts entities
MaxEnts == 4

-----------------------------------------------------------------------------
(* Small helpers *)

Max(a, b) == IF a >= b THEN a ELSE b

SeqsUpTo(S, n) == UNION {[1..k -> S] : k \in 0..n}

\* fnResult before the call; <<r>> once the function has returned r
NotCalled == <<>>

\* (None, None)
NoSlot == <<>>

-----------------------------------------------------------------------------
(* find_overlapping_slot *)

\* b overlaps the window (start, end)
Overlaps(b, start, end) == b[1] < end /\ b[2] > start

\* [b for b in busy_slots if b[0] < end and b[1] > start]
SlotBusy(busy_slots, start, end) ==
    SelectSeq(busy_slots, LAMBDA b : Overlaps(b, start, end))

\* insert x behind every element whose start is <= x's start
InsertByStart(x, s) ==
    LET k == Cardinality({i \in 1..Len(s) : s[i][1] <= x[1]})
    IN  SubSeq(s, 1, k) \o <<x>> \o SubSeq(s, k + 1, Len(s))

RECURSIVE SortedFrom(_, _, _)
SortedFrom(s, i, acc) ==
    IF i > Len(s) THEN acc
    ELSE SortedFrom(s, i + 1, InsertByStart(s[i], acc))

\* sorted(slot_busy, key=lambda x: x[0]): stable, by start only
SortedByStart(s) == SortedFrom(s, 1, <<>>)

\* free_start = busy_end
AdvanceCursor(free_start, b) == b[2]

RECURSIVE Sweep(_, _, _, _, _)
Sweep(sorted, i, free_start, end, duration) ==
    IF i > Len(sorted)
    THEN IF end - free_start >= duration
         THEN <<free_start, free_start + duration>>
         ELSE NoSlot
    ELSE IF sorted[i][1] - free_start >= duration
         THEN <<free_start, free_start + duration>>
         ELSE Sweep(sorted, i + 1, AdvanceCursor(free_start, sorted[i]),
                    end, duration)

\* the loop body with the length check of a window without busy time lost
WindowSlotUnchecked(start, end, busy_slots, duration) ==
    LET slot_busy == SlotBusy(busy_slots, start, end)
    IN  IF slot_busy = <<>>
        THEN <<start, start + duration>>
        ELSE Sweep(SortedByStart(slot_busy), 1, start, end, duration)

\* one pass of the loop body for the window (start, end)
WindowSlot(start, end, busy_slots, duration) ==
    LET slot_busy == SlotBusy(busy_slots, start, end)
    IN  IF slot_busy = <<>>
        THEN IF end - start >= duration
             THEN <<start, start + duration>>
             ELSE NoSlot
        ELSE Sweep(SortedByStart(slot_busy), 1, start, end, duration)

RECURSIVE FindFrom(_, _, _, _)
FindFrom(availability, k, busy_slots, duration) ==
    IF k > Len(availability) THEN NoSlot
    ELSE LET r == WindowSlot(availability[k][1], availability[k][2],
                             busy_slots, duration)
         IN  IF r # NoSlot THEN r
             ELSE FindFrom(availability, k + 1, busy_slots, duration)

find_overlapping_slot(availability, busy_slots, duration_hours) ==
    FindFrom(availability, 1, busy_slots, duration_hours)

-----------------------------------------------------------------------------
(* parse_availability *)

\* None; a value v that may be None is held as <<v>>
None == <<>>

\* the parse of a text raised ValueError; a parsed value v is held as <<v>>
ValueError == <<>>

\* vague_times: start hour, start minute, end hour, end minute
vague_times ==
    [morning |-> <<8, 0, 12, 0>>,
     afternoon |-> <<13, 0, 17, 0>>,
     evening |-> <<17, 0, 20, 0>>]

\* ent.text.lower() on the TIME texts of the model
Lower(text) ==
    CASE text = "Morning" -> "morning"
      [] text = "10 AM" -> "10 am"
      [] text = "12 PM" -> "12 pm"
      [] OTHER -> text

\* date_parser.parse(ent.text, fuzzy=True, default=now).date(): <<d>> for
\* the day number d of the date the text names, or ValueError
ParseDate(text) ==
    CASE text = "Monday" -> <<0>>
      [] text = "Tuesday" -> <<1>>
      [] OTHER -> ValueError

\* date_parser.parse(time_text, fuzzy=True).time(): <<h>> for the hour h of
\* the day the text names, or ValueError
ParseTime(time_text) ==
    CASE time_text = "9 am" -> <<9>>
      [] time_text = "10 am" -> <<10>>
      [] time_text = "12 pm" -> <<12>>
      [] time_text = "3pm" -> <<15>>
      [] OTHER -> ValueError

\* datetime.datetime.combine(date, time), in hours
Combine(date, hour) == date * 24 + hour

\* the locals of parse_availability before the first entity; current_date
\* is None or <<day number>>, prev_time is None or <<current_date, start_dt>>
ParseStart == [availability |-> <<>>, current_date |-> None, prev_time |-> None]

\* a DATE entity that does not parse leaves the date as it was
OnDateKeep(st, ent) ==
    LET d == ParseDate(ent.text)
    IN  [st EXCEPT !.current_date = IF d = ValueError THEN @ ELSE d]

\* a DATE entity
OnDate(st, ent) ==
    LET d == ParseDate(ent.text)
    IN  [st EXCEPT !.current_date = IF d = ValueError THEN None ELSE d]

\* a TIME entity that names a day part
OnVagueTime(st, time_text) ==
    LET v == vague_times[time_text]
        start_dt == Combine(st.current_date[1], v[1])
        end_dt == Combine(st.current_date[1], v[3])
    IN  [st EXCEPT !.availability = Append(@, <<start_dt, end_dt>>)]

\* a time of day taken as a slot of one hour, and not kept as a start
OnClockTimeForgetful(st, time_text) ==
    LET time == ParseTime(time_text)
        start_dt == Combine(st.current_date[1], time[1])
    IN  IF time = ValueError
        THEN [st EXCEPT !.prev_time = None]
        ELSE [st EXCEPT
                 !.availability = Append(@, <<start_dt, start_dt + 1>>),
                 !.prev_time = None]

\* a TIME entity that names a time of day
OnClockTime(st, time_text) ==
    LET time == ParseTime(time_text)
        start_dt == Combine(st.current_date[1], time[1])
    IN  IF time = ValueError
        THEN [st EXCEPT !.prev_time = None]
        ELSE IF st.prev_time # None /\ st.prev_time[1] = st.current_date
             THEN [st EXCEPT
                      !.availability = Append(@, <<st.prev_time[2], start_dt>>),
                      !.prev_time = None]
             ELSE [st EXCEPT
                      !.availability = Append(@, <<start_dt, start_dt + 1>>),
                      !.prev_time = <<st.current_date, start_dt>>]

\* a TIME entity
OnTime(st, ent) ==
    IF st.current_date = None
    THEN [st EXCEPT !.prev_time = None]
    ELSE LET time_text == Lower(ent.text)
         IN  IF time_text \in DOMAIN vague_times
             THEN OnVagueTime(st, time_text)
             ELSE OnClockTime(st, time_text)

\* one pass of the loop over doc.ents
ParseEntity(st, ent) ==
    CASE ent.label = "DATE" -> OnDate(st, ent)
      [] ent.label = "TIME" -> OnTime(st, ent)
      [] OTHER -> st

RECURSIVE ParseFrom(_, _, _)
ParseFrom(ents, i, st) ==
    IF i > Len(ents) THEN st
    ELSE ParseFrom(ents, i + 1, ParseEntity(st, ents[i]))

\* text stands for doc.ents, the entities nlp(text) finds, in document order
parse_availability(text) == ParseFrom(text, 1, ParseStart).availability

-----------------------------------------------------------------------------
(* The stored form of the availability column *)

\* datetime.isoformat(): date and time of day, apart
IsoFormat(t) == <<t \div 24, t % 24>>

\* date_parser.parse of an ISO string
IsoParse(iso) == iso[1] * 24 + iso[2]

\* json.dumps([(start.isoformat(), end.isoformat()) for start, end in ...]):
\* the column holds <<list of pairs of ISO strings>>, or None
DumpAvailability(availability) ==
    <<[k \in 1..Len(availability) |->
        <<IsoFormat(availability[k][1]), IsoFormat(availability[k][2])>>]>>

\* json.loads(req.availability or '[]') and the parse of each pair
LoadAvailability(column) ==
    LET pairs == IF column = None THEN <<>> ELSE column[1]
    IN  [k \in 1..Len(pairs) |->
            <<IsoParse(pairs[k][1]), IsoParse(pairs[k][2])>>]

-----------------------------------------------------------------------------
(* The request store, the calendar and the mailer *)

Workers == 1..NumWorkers

DATE(text) == [label |-> "DATE", text |-> text]

TIME(text) == [label |-> "TIME", text |-> text]

\* the reply texts that come in, each as the entities nlp finds in it:
\* "", "10 AM", "Monday 10 AM", "Monday 10 AM to 12 PM", "Monday 12 PM to 10 AM"
ReplyTexts ==
    {<<>>,
     <<TIME("10 AM")>>,
     <<DATE("Monday"), TIME("10 AM")>>,
     <<DATE("Monday"), TIME("10 AM"), TIME("12 PM")>>,
     <<DATE("Monday"), TIME("12 PM"), TIME("10 AM")>>}

\* re.search(r'Request #(\d+)', subject): <<id>>, or None without a match
Subjects == {None} \cup {<<id>> : id \in 1..(MaxReq + 1)}

\* what freebusy().query answers for the span start..end: up to MaxBusy busy
\* intervals, in any order, with end points among the hours of the span
BusyReplies(start, end) ==
    SeqsUpTo({b \in (start..end) \X (start..end) : b[1] < b[2]}, MaxBusy)

\* duration_hours=1
DefaultDurationHours == 1

\* a row of scheduling_requests as session.add stores it
NewRow == [status |-> "pending", availability |-> None]

\* the key of the newest row handed out again
ReusedRequestId(rows) == Max(1, Len(rows))

\* the primary key of the next row
NewRequestId(rows) == Len(rows) + 1

\* the row with key id stored
PutRow(rows, id, row) ==
    [k \in 1..Max(Len(rows), id) |-> IF k = id THEN row ELSE rows[k]]

\* the locals of an incoming_email handler that is not running
IdleLoc ==
    [rid |-> None,        \* request_id
     parsed |-> None,     \* <<availability>>, as parse_availability returned it
     req |-> None,        \* <<row>>: the request as schedule_interview has it
     windows |-> <<>>,    \* availability, as schedule_interview decoded it
     i |-> 0,             \* index of the window of the current pass
     slot |-> NoSlot,     \* slot_start, slot_end
     pre |-> None,        \* <<state of the request when schedule_interview began>>
     queries |-> 0,       \* freebusy queries made
     yielded |-> FALSE,   \* some window has yielded a slot
     failed |-> None,     \* <<the call that raised>>
     result |-> "none"]   \* how the handler ended

\* what the store, the calendar and the mailer hold about request id
Snapshot(id) ==
    [status |-> db[id].status, events |-> events[id], mail |-> mail[id]]

Init ==
    /\ db = <<>>
    /\ events = <<>>
    /\ mail = <<>>
    /\ pc = [p \in Workers |-> "idle"]
    /\ loc = [p \in Workers |-> IdleLoc]
    /\ hist = [calls |-> 0, availWrites |-> <<>>, statusWrites |-> <<>>]
    /\ fnArgs = <<>>
    /\ fnResult = NotCalled

\* POST /schedule: the row is committed, then the request e-mail goes out
\* (delivered says whether send_email came back without raising)
schedule(delivered) ==
    LET request_id == NewRequestId(db)
    IN  /\ Len(db) < MaxReq
        /\ db' = PutRow(db, request_id, NewRow)
        /\ events' = PutRow(events, request_id, 0)
        /\ mail' = PutRow(mail, request_id,
                          [request |-> IF delivered THEN 1 ELSE 0,
                           confirm |-> 0, noslot |-> 0])
        /\ hist' = [hist EXCEPT
                       !.availWrites = PutRow(@, request_id, 0),
                       !.statusWrites = PutRow(@, request_id, 0)]
        /\ UNCHANGED <<pc, loc, fnVars>>

\* the guard without the test of the status: if req
ProcessableAnyStatus(match) ==
    /\ match # None
    /\ match[1] \in DOMAIN db

\* req and req.status == 'pending', for the subject's match
Processable(match) ==
    /\ match # None
    /\ match[1] \in DOMAIN db
    /\ db[match[1]].status = "pending"

\* the handler ends: with an exception when call is the call that raised
Ended(p, result, call) ==
    /\ pc' = [pc EXCEPT ![p] = "ret"]
    /\ loc' = [loc EXCEPT ![p].result = result, ![p].failed = call]

\* POST /incoming_email up to the parse: the subject is matched, the request
\* looked up and, if it is pending, the reply text parsed
Receive(p, match, text) ==
    /\ pc[p] = "idle"
    /\ hist.calls < MaxCalls
    /\ hist' = [hist EXCEPT !.calls = @ + 1]
    /\ IF Processable(match)
       THEN /\ pc' = [pc EXCEPT ![p] = "commit"]
            /\ loc' = [loc EXCEPT ![p].rid = match,
                                  ![p].parsed = <<parse_availability(text)>>]
       ELSE /\ pc' = [pc EXCEPT ![p] = "ret"]
            /\ loc' = [loc EXCEPT ![p].rid = match, ![p].result = "ignored"]
    /\ UNCHANGED <<db, events, mail, fnVars>>

\* req.availability = json.dumps(...); session.commit()
Commit(p) ==
    LET id == loc[p].rid[1]
    IN  /\ pc[p] = "commit"
        /\ db' = [db EXCEPT
                     ![id].availability = DumpAvailability(loc[p].parsed[1])]
        /\ hist' = [hist EXCEPT !.availWrites[id] = @ + 1]
        /\ pc' = [pc EXCEPT ![p] = "schedule"]
        /\ UNCHANGED <<events, mail, loc, fnVars>>

\* schedule_interview without the return for an empty availability: the loop
\* runs over no window and the "No Available Slots" e-mail is next
EnterUnchecked(p, built) ==
    LET id == loc[p].rid[1]
        availability == LoadAvailability(db[id].availability)
    IN  /\ pc[p] = "schedule"
        /\ IF built
           THEN /\ pc' = [pc EXCEPT
                            ![p] = IF availability = <<>> THEN "noslot"
                                                          ELSE "fetch"]
                /\ loc' = [loc EXCEPT ![p].req = <<db[id]>>,
                                      ![p].pre = <<Snapshot(id)>>,
                                      ![p].windows = availability,
                                      ![p].i = 1]
           ELSE /\ pc' = [pc EXCEPT ![p] = "ret"]
                /\ loc' = [loc EXCEPT ![p].req = <<db[id]>>,
                                      ![p].pre = <<Snapshot(id)>>,
                                      ![p].windows = availability,
                                      ![p].result = "error",
                                      ![p].failed = <<"service">>]
        /\ UNCHANGED <<db, events, mail, hist, fnVars>>

\* schedule_interview up to the loop: the availability of the request is
\* read and decoded and the calendar service built (built says whether
\* get_calendar_service came back without raising)
Enter(p, built) ==
    LET id == loc[p].rid[1]
        availability == LoadAvailability(db[id].availability)
    IN  /\ pc[p] = "schedule"
        /\ IF availability = <<>>
           THEN /\ pc' = [pc EXCEPT ![p] = "ret"]
                /\ loc' = [loc EXCEPT ![p].req = <<db[id]>>,
                                      ![p].pre = <<Snapshot(id)>>,
                                      ![p].result = "empty"]
           ELSE IF built
           THEN /\ pc' = [pc EXCEPT ![p] = "fetch"]
                /\ loc' = [loc EXCEPT ![p].req = <<db[id]>>,
                                      ![p].pre = <<Snapshot(id)>>,
                                      ![p].windows = availability,
                                      ![p].i = 1]
           ELSE /\ pc' = [pc EXCEPT ![p] = "ret"]
                /\ loc' = [loc EXCEPT ![p].req = <<db[id]>>,
                                      ![p].pre = <<Snapshot(id)>>,
                                      ![p].windows = availability,
                                      ![p].result = "error",
                                      ![p].failed = <<"service">>]
        /\ UNCHANGED <<db, events, mail, hist, fnVars>>

\* get_free_slots raises for the window of the current pass
FetchFails(p) ==
    /\ pc[p] = "fetch"
    /\ pc' = [pc EXCEPT ![p] = "ret"]
    /\ loc' = [loc EXCEPT ![p].queries = @ + 1,
                          ![p].result = "error",
                          ![p].failed = <<"freebusy">>]
    /\ UNCHANGED <<db, events, mail, hist, fnVars>>

\* a loop that starts over after the last window
FetchAround(p, busy_slots) ==
    LET w == loc[p].windows[loc[p].i]
        slot == find_overlapping_slot(<<w>>, busy_slots, DefaultDurationHours)
    IN  /\ pc[p] = "fetch"
        /\ IF slot # NoSlot
           THEN /\ pc' = [pc EXCEPT ![p] = "create"]
                /\ loc' = [loc EXCEPT ![p].queries = @ + 1,
                                      ![p].slot = slot,
                                      ![p].yielded = TRUE]
           ELSE /\ pc' = pc
                /\ loc' = [loc EXCEPT ![p].i = (@ % Len(loc[p].windows)) + 1]
        /\ UNCHANGED <<db, events, mail, hist, fnVars>>

\* one pass of the loop up to the test of the slot: the busy intervals of
\* the window are fetched and the window matched against them
Fetch(p, busy_slots) ==
    LET w == loc[p].windows[loc[p].i]
        slot == find_overlapping_slot(<<w>>, busy_slots, DefaultDurationHours)
    IN  /\ pc[p] = "fetch"
        /\ IF slot # NoSlot
           THEN /\ pc' = [pc EXCEPT ![p] = "create"]
                /\ loc' = [loc EXCEPT ![p].queries = @ + 1,
                                      ![p].slot = slot,
                                      ![p].yielded = TRUE]
           ELSE IF loc[p].i < Len(loc[p].windows)
           THEN /\ pc' = pc
                /\ loc' = [loc EXCEPT ![p].queries = @ + 1, ![p].i = @ + 1]
           ELSE /\ pc' = [pc EXCEPT ![p] = "noslot"]
                /\ loc' = [loc EXCEPT ![p].queries = @ + 1]
        /\ UNCHANGED <<db, events, mail, hist, fnVars>>

\* a pass of the loop, for whatever the calendar answers
FetchAny(p) ==
    /\ pc[p] = "fetch"
    /\ \E busy_slots \in BusyReplies(loc[p].windows[loc[p].i][1],
                                     loc[p].windows[loc[p].i][2]) :
          Fetch(p, busy_slots)

\* the status stored as scheduled before create_event is called
CreateAfterPersist(p, created) ==
    LET id == loc[p].rid[1]
    IN  /\ pc[p] = "create"
        /\ db' = [db EXCEPT ![id].status = "scheduled"]
        /\ hist' = [hist EXCEPT !.statusWrites[id] = @ + 1]
        /\ IF created
           THEN /\ events' = [events EXCEPT ![id] = @ + 1]
                /\ pc' = [pc EXCEPT ![p] = "confirm"]
                /\ loc' = loc
           ELSE /\ events' = events
                /\ Ended(p, "error", <<"insert">>)
        /\ UNCHANGED <<mail, fnVars>>

\* an exception of create_event swallowed: the booking goes on without it
CreateSwallowed(p, created) ==
    LET id == loc[p].rid[1]
    IN  /\ pc[p] = "create"
        /\ events' = IF created THEN [events EXCEPT ![id] = @ + 1] ELSE events
        /\ pc' = [pc EXCEPT ![p] = "persist"]
        /\ UNCHANGED <<db, mail, loc, hist, fnVars>>

\* create_event (created says whether the insert came back without raising)
Create(p, created) ==
    LET id == loc[p].rid[1]
    IN  /\ pc[p] = "create"
        /\ IF created
           THEN /\ events' = [events EXCEPT ![id] = @ + 1]
                /\ pc' = [pc EXCEPT ![p] = "persist"]
                /\ loc' = loc
           ELSE /\ events' = events
                /\ Ended(p, "error", <<"insert">>)
        /\ UNCHANGED <<db, mail, hist, fnVars>>

\* req.status = 'scheduled'; session.merge(req); session.commit(): the row
\* is stored as the handler holds it
Persist(p) ==
    LET id == loc[p].rid[1]
    IN  /\ pc[p] = "persist"
        /\ db' = [db EXCEPT ![id] = [loc[p].req[1] EXCEPT !.status = "scheduled"]]
        /\ hist' = [hist EXCEPT !.statusWrites[id] = @ + 1]
        /\ pc' = [pc EXCEPT ![p] = "confirm"]
        /\ UNCHANGED <<events, mail, loc, fnVars>>

\* the confirmation without the return behind it: the loop goes on with the
\* next window
ConfirmAndGoOn(p, delivered) ==
    LET id == loc[p].rid[1]
    IN  /\ pc[p] = "confirm"
        /\ IF delivered
           THEN /\ mail' = [mail EXCEPT ![id].confirm = @ + 1]
                /\ IF loc[p].i < Len(loc[p].windows)
                   THEN /\ pc' = [pc EXCEPT ![p] = "fetch"]
                        /\ loc' = [loc EXCEPT ![p].i = @ + 1]
                   ELSE /\ pc' = [pc EXCEPT ![p] = "noslot"]
                        /\ loc' = loc
           ELSE /\ mail' = mail
                /\ Ended(p, "error", <<"confirm">>)
        /\ UNCHANGED <<db, events, hist, fnVars>>

\* the "Interview Scheduled" e-mail (delivered: send_email did not raise)
Confirm(p, delivered) ==
    LET id == loc[p].rid[1]
    IN  /\ pc[p] = "confirm"
        /\ IF delivered
           THEN /\ mail' = [mail EXCEPT ![id].confirm = @ + 1]
                /\ Ended(p, "scheduled", None)
           ELSE /\ mail' = mail
                /\ Ended(p, "error", <<"confirm">>)
        /\ UNCHANGED <<db, events, hist, fnVars>>

\* the request stored as failed when no window has yielded a slot
NotifyNoSlotAndFail(p, delivered) ==
    LET id == loc[p].rid[1]
    IN  /\ pc[p] = "noslot"
        /\ db' = [db EXCEPT ![id].status = "failed"]
        /\ hist' = [hist EXCEPT !.statusWrites[id] = @ + 1]
        /\ IF delivered
           THEN /\ mail' = [mail EXCEPT ![id].noslot = @ + 1]
                /\ Ended(p, "noslot", None)
           ELSE /\ mail' = mail
                /\ Ended(p, "error", <<"noslot">>)
        /\ UNCHANGED <<events, fnVars>>

\* the "No Available Slots" e-mail (delivered: send_email did not raise)
NotifyNoSlot(p, delivered) ==
    LET id == loc[p].rid[1]
    IN  /\ pc[p] = "noslot"
        /\ IF delivered
           THEN /\ mail' = [mail EXCEPT ![id].noslot = @ + 1]
                /\ Ended(p, "noslot", None)
           ELSE /\ mail' = mail
                /\ Ended(p, "error", <<"noslot">>)
        /\ UNCHANGED <<db, events, hist, fnVars>>

\* the response goes out and the handler's locals are gone
Respond(p) ==
    /\ pc[p] = "ret"
    /\ pc' = [pc EXCEPT ![p] = "idle"]
    /\ loc' = [loc EXCEPT ![p] = IdleLoc]
    /\ UNCHANGED <<db, events, mail, hist, fnVars>>

\* the steps of the handler of worker p
Handle(p) ==
    \/ \E match \in Subjects, text \in ReplyTexts : Receive(p, match, text)
    \/ Commit(p)
    \/ \E built \in BOOLEAN : Enter(p, built)
    \/ FetchFails(p)
    \/ FetchAny(p)
    \/ \E created \in BOOLEAN : Create(p, created)
    \/ Persist(p)
    \/ \E delivered \in BOOLEAN : Confirm(p, delivered)
    \/ \E delivered \in BOOLEAN : NotifyNoSlot(p, delivered)
    \/ Respond(p)

\* the worker that serves every request when requests come one at a time
FirstWorker == CHOOSE p \in Workers : \A q \in Workers : p <= q

Next ==
    \/ \E delivered \in BOOLEAN : schedule(delivered)
    \/ Handle(FirstWorker)

\* requests are served one at a time
Spec == Init /\ [][Next]_vars

-----------------------------------------------------------------------------
(* The matcher on its own: every input within the bounds, then the call *)

Times == 0..MaxTime

\* availability windows as the caller hands them over (any pair of times)
Windows == Times \X Times

\* busy intervals of a calendar: start < end
BusyIntervals == {b \in Times \X Times : b[1] < b[2]}

IdleApp ==
    /\ db = <<>>
    /\ events = <<>>
    /\ mail = <<>>
    /\ pc = <<>>
    /\ loc = <<>>
    /\ hist = <<>>

InitMatcher ==
    /\ IdleApp
    /\ fnArgs \in [availability : SeqsUpTo(Windows, MaxWin),
                   busy_slots : SeqsUpTo(BusyIntervals, MaxBusy),
                   duration_hours : 1..MaxDur]
    /\ fnResult = NotCalled

CallFindSlot ==
    /\ fnResult = NotCalled
    /\ fnResult' = <<find_overlapping_slot(fnArgs.availability,
                                           fnArgs.busy_slots,
                                           fnArgs.duration_hours)>>
    /\ UNCHANGED <<fnArgs, appVars>>

NextMatcher == CallFindSlot

SpecMatcher == InitMatcher /\ [][NextMatcher]_vars

-----------------------------------------------------------------------------
(* Requests served one at a time by a calendar and a mailer that answer
   every call: a handler that has started goes on to its next statement *)

\* the next statement of handler p after the parse, no call raising
Run(p) ==
    \/ Commit(p)
    \/ Enter(p, TRUE)
    \/ FetchAny(p)
    \/ Create(p, TRUE)
    \/ Persist(p)
    \/ Confirm(p, TRUE)
    \/ NotifyNoSlot(p, TRUE)
    \/ Respond(p)

NextLive ==
    \/ \E delivered \in BOOLEAN : schedule(delivered)
    \/ \E match \in Subjects, text \in ReplyTexts :
          Receive(FirstWorker, match, text)
    \/ Run(FirstWorker)

SpecLive == Init /\ [][NextLive]_vars /\ WF_vars(Run(FirstWorker))

-----------------------------------------------------------------------------
(* The server with its handlers running side by side: each step is one
   handler's next statement, so that the read of a request by one handler
   may fall between the read and the write of another *)

NextConc ==
    \/ \E delivered \in BOOLEAN : schedule(delivered)
    \/ \E p \in Workers : Handle(p)

SpecConc == Init /\ [][NextConc]_vars

-----------------------------------------------------------------------------
(* parse_availability alone, one pass of its loop at a time: fnArgs holds the
   entities of the text, loc the locals, pc the index of the next entity,
   fnResult the list returned; hist notes which entity set prev_time and
   which entities a range was made of *)

\* the entities nlp finds in a text
ParserEntities ==
    {DATE("Monday"), DATE("Tuesday"), DATE("someday"),
     TIME("10 AM"), TIME("12 PM"), TIME("Morning"), TIME("soon"),
     [label |-> "PERSON", text |-> "Alex"]}

InitParser ==
    /\ fnArgs \in [text : SeqsUpTo(ParserEntities, MaxEnts)]
    /\ fnResult = NotCalled
    /\ loc = ParseStart
    /\ pc = 1
    /\ hist = [setter |-> 0, ranges |-> <<>>]
    /\ db = <<>>
    /\ events = <<>>
    /\ mail = <<>>

\* one pass of the loop
ParseStep ==
    /\ fnResult = NotCalled
    /\ pc <= Len(fnArgs.text)
    /\ loc' = ParseEntity(loc, fnArgs.text[pc])
    /\ pc' = pc + 1
    /\ hist' =
        IF loc'.prev_time # None /\ loc'.prev_time # loc.prev_time
        THEN [hist EXCEPT !.setter = pc]
        ELSE IF /\ loc.prev_time # None
                /\ loc'.prev_time = None
                /\ Len(loc'.availability) = Len(loc.availability) + 1
             THEN [hist EXCEPT
                      !.setter = 0,
                      !.ranges = Append(@, [from |-> hist.setter, to |-> pc,
                                            date |-> loc.prev_time[1],
                                            under |-> loc.current_date])]
             ELSE IF loc'.prev_time = None
                  THEN [hist EXCEPT !.setter = 0]
                  ELSE hist
    /\ UNCHANGED <<fnArgs, fnResult, db, events, mail>>

\* return availability
ParseReturn ==
    /\ fnResult = NotCalled
    /\ pc > Len(fnArgs.text)
    /\ fnResult' = <<loc.availability>>
    /\ UNCHANGED <<fnArgs, appVars>>

NextParser == ParseStep \/ ParseReturn

SpecParser == InitParser /\ [][NextParser]_vars

-----------------------------------------------------------------------------
(* Properties of find_overlapping_slot *)

Returned == fnResult # NotCalled /\ fnResult[1] # NoSlot

\* the slot that came back
Slot == fnResult[1]

\* the busy intervals the slot <<s, e>> runs into
Conflicts(slot, busy_slots) ==
    {i \in 1..Len(busy_slots) :
        busy_slots[i][1] < slot[2] /\ busy_slots[i][2] > slot[1]}

\* s starts a valid slot of window w: inside w, duration long, clear of busy
ValidStart(s, w, busy_slots, duration) ==
    /\ w[1] <= s
    /\ s + duration <= w[2]
    /\ Conflicts(<<s, s + duration>>, busy_slots) = {}

ValidStarts(w, busy_slots, duration) ==
    {s \in Times : ValidStart(s, w, busy_slots, duration)}

\* the windows of the call that admit a valid slot
Viable ==
    {k \in 1..Len(fnArgs.availability) :
        ValidStarts(fnArgs.availability[k], fnArgs.busy_slots,
                    fnArgs.duration_hours) # {}}

Least(S) == CHOOSE x \in S : \A y \in S : x <= y

\* earliest valid slot of the first viable window
FirstFit ==
    LET k == Least(Viable)
        s == Least(ValidStarts(fnArgs.availability[k], fnArgs.busy_slots,
                               fnArgs.duration_hours))
    IN  <<s, s + fnArgs.duration_hours>>

\* C1: a returned slot is disjoint from every given busy interval.
C1_SlotAvoidsBusy ==
    Returned => Conflicts(Slot, fnArgs.busy_slots) = {}

\* C2: a returned slot is exactly duration long and lies inside one of the
\* availability windows of the call.
C2_SlotExactInsideWindow ==
    Returned =>
        /\ Slot[2] - Slot[1] = fnArgs.duration_hours
        /\ \E k \in 1..Len(fnArgs.availability) :
              /\ fnArgs.availability[k][1] <= Slot[1]
              /\ Slot[2] <= fnArgs.availability[k][2]

\* a slot came back that starts behind a busy interval inside its window
C2_Witness ==
    /\ Returned
    /\ \E k \in 1..Len(fnArgs.availability), i \in 1..Len(fnArgs.busy_slots) :
          /\ fnArgs.availability[k][1] <= fnArgs.busy_slots[i][1]
          /\ fnArgs.busy_slots[i][2] = Slot[1]
          /\ Slot[2] <= fnArgs.availability[k][2]

\* C3: the result is the earliest valid slot of the first window that admits
\* a valid slot.
C3_FirstFit ==
    (fnResult # NotCalled /\ Viable # {}) => fnResult[1] = FirstFit

\* C4: "none found" comes back exactly when no window admits a valid slot.
C4_NoneIffNoValidSlot ==
    fnResult # NotCalled => (fnResult[1] = NoSlot <=> Viable = {})

-----------------------------------------------------------------------------
(* Properties of the request lifecycle *)

\* the request the handler of p is about
Rid(p) == loc[p].rid[1]

\* the subject names a request that is stored as pending
NamesPending(match) ==
    /\ match # None
    /\ match[1] \in DOMAIN db
    /\ db[match[1]].status = "pending"

\* the availability column holds no window
EmptyColumn(column) == column = None \/ column[1] = <<>>

\* C5: the status of a request changes only from pending to scheduled or
\* from pending to failed; a scheduled or failed request keeps its status.
C5_StatusForwardOnly ==
    [][\A id \in DOMAIN db :
          db'[id].status # db[id].status =>
              /\ db[id].status = "pending"
              /\ db'[id].status \in {"scheduled", "failed"}]_vars

\* a request is scheduled, a younger request exists, and a reply that names
\* the scheduled one has been handled
C5_Witness ==
    \E p \in Workers :
        /\ pc[p] = "ret"
        /\ loc[p].rid # None
        /\ Rid(p) \in DOMAIN db
        /\ db[Rid(p)].status = "scheduled"
        /\ hist.statusWrites[Rid(p)] = 1
        /\ loc[p].pre = None
        /\ Len(db) > Rid(p)

\* C6: an incoming e-mail that names no request, an unknown request or a
\* request that is not pending ends the handler at once: the parser is not
\* applied, no freebusy query is made, and the store, the calendar and the
\* mailer are left as they were.
C6_IngestNoOp ==
    [][\A p \in Workers :
          (pc[p] = "idle" /\ pc'[p] # "idle" /\ ~NamesPending(loc'[p].rid)) =>
              /\ pc'[p] = "ret"
              /\ loc'[p].parsed = None
              /\ loc'[p].queries = 0
              /\ loc'[p].failed = None
              /\ db' = db
              /\ events' = events
              /\ mail' = mail
              /\ hist'.availWrites = hist.availWrites
              /\ hist'.statusWrites = hist.statusWrites]_vars

\* a second reply for a request that the first reply got scheduled and
\* confirmed has been handled
C6_Witness ==
    \E p \in Workers :
        /\ pc[p] = "ret"
        /\ loc[p].rid # None
        /\ Rid(p) \in DOMAIN db
        /\ db[Rid(p)].status = "scheduled"
        /\ mail[Rid(p)].confirm = 1
        /\ loc[p].parsed = None
        /\ loc[p].result = "ignored"

\* C7, as claimed: neither the availability nor the status of a request is
\* ever written a second time.
C7_EachFieldWrittenOnce ==
    \A id \in DOMAIN db :
        hist.availWrites[id] <= 1 /\ hist.statusWrites[id] <= 1

\* C7, amended: the status of a request is written at most once, to
\* scheduled and after a write of the availability, and from then on neither
\* field is written again; while the request is pending every reply writes
\* the availability anew.
C7_StatusOnceThenFrozen ==
    /\ [](\A id \in DOMAIN db :
            /\ hist.statusWrites[id] <= 1
            /\ hist.statusWrites[id] = 1 <=> db[id].status = "scheduled"
            /\ hist.statusWrites[id] = 1 => hist.availWrites[id] >= 1)
    /\ [][\A id \in DOMAIN db :
            hist.statusWrites[id] = 1 =>
                /\ hist'.availWrites[id] = hist.availWrites[id]
                /\ hist'.statusWrites[id] = 1
                /\ db'[id] = db[id]]_vars

\* the availability of a request was written by two replies, and the second
\* one got the request scheduled
C7_Witness ==
    \E id \in DOMAIN db :
        /\ hist.availWrites[id] = 2
        /\ hist.statusWrites[id] = 1
        /\ db[id].status = "scheduled"

\* C8: schedule_interview on a request without availability returns at
\* once: no freebusy query, no event, no e-mail, the stored request as it was.
C8_EmptyAvailabilityNoChange ==
    [][\A p \in Workers :
          (/\ pc[p] = "schedule"
           /\ pc'[p] # "schedule"
           /\ EmptyColumn(db[Rid(p)].availability)) =>
              /\ pc'[p] = "ret"
              /\ loc'[p].queries = 0
              /\ loc'[p].failed = None
              /\ db' = db
              /\ events' = events
              /\ mail' = mail
              /\ hist' = hist]_vars

\* schedule_interview has returned for a request whose reply held no window
C8_Witness ==
    \E p \in Workers :
        /\ pc[p] = "ret"
        /\ loc[p].pre # None
        /\ loc[p].parsed = <<<<>>>>
        /\ EmptyColumn(db[Rid(p)].availability)
        /\ hist.availWrites[Rid(p)] >= 1
        /\ db[Rid(p)].status = "pending"

\* schedule_interview has ended for p, on a request with availability,
\* without an exception and without a window that yielded a slot
EndedWithoutSlot(p) ==
    /\ pc[p] = "ret"
    /\ loc[p].pre # None
    /\ ~EmptyColumn(loc[p].req[1].availability)
    /\ loc[p].failed = None
    /\ ~loc[p].yielded

\* C9: when no window yields a slot and no call fails, one "No Available
\* Slots" e-mail has gone out, no event was created, no other e-mail was
\* sent and the request is still pending.
C9_NoSlotNotifiesOnce ==
    \A p \in Workers :
        EndedWithoutSlot(p) =>
            /\ mail[Rid(p)].noslot = loc[p].pre[1].mail.noslot + 1
            /\ mail[Rid(p)].confirm = loc[p].pre[1].mail.confirm
            /\ mail[Rid(p)].request = loc[p].pre[1].mail.request
            /\ events[Rid(p)] = loc[p].pre[1].events
            /\ db[Rid(p)].status = "pending"

\* both windows of a reply were matched against busy time and neither
\* yielded a slot
C9_Witness ==
    \E p \in Workers :
        /\ EndedWithoutSlot(p)
        /\ Len(loc[p].windows) = 2
        /\ loc[p].queries = 2
        /\ mail[Rid(p)].noslot = 1

\* C10, as claimed: after an invocation of schedule_interview that a failing
\* call aborted, the stored status is the status from before the invocation.
C10_FailureKeepsStatus ==
    \A p \in Workers :
        (pc[p] = "ret" /\ loc[p].failed # None) =>
            db[Rid(p)].status = loc[p].pre[1].status

\* C10, amended: a failure of get_calendar_service, of the freebusy query,
\* of the event insert or of the "No Available Slots" e-mail leaves the
\* stored status as it was before the invocation; when the confirmation
\* e-mail fails the event has been created and the status is stored as
\* scheduled.
C10_FailureKeepsStatusUnlessBooked ==
    \A p \in Workers :
        (pc[p] = "ret" /\ loc[p].failed # None) =>
            IF loc[p].failed = <<"confirm">>
            THEN /\ loc[p].pre[1].status = "pending"
                 /\ db[Rid(p)].status = "scheduled"
                 /\ events[Rid(p)] = loc[p].pre[1].events + 1
            ELSE /\ db[Rid(p)].status = loc[p].pre[1].status
                 /\ events[Rid(p)] = loc[p].pre[1].events

\* the event insert failed for the slot of the second window of a reply
C10_Witness ==
    \E p \in Workers :
        /\ pc[p] = "ret"
        /\ loc[p].failed = <<"insert">>
        /\ loc[p].slot # NoSlot
        /\ loc[p].i = 2

\* C11: a request stored as scheduled has a calendar event that was created
\* for it; the status never becomes scheduled without a successful insert.
C11_ScheduledHasEvent ==
    /\ [](\A id \in DOMAIN db : db[id].status = "scheduled" => events[id] >= 1)
    /\ [][\A id \in DOMAIN db :
            (db[id].status # "scheduled" /\ db'[id].status = "scheduled") =>
                \E p \in Workers :
                    /\ pc[p] = "persist"
                    /\ loc[p].rid = <<id>>
                    /\ events[id] = loc[p].pre[1].events + 1]_vars

\* an insert failed for a request, a later reply got it scheduled
C11_Witness ==
    \E id \in DOMAIN db :
        /\ db[id].status = "scheduled"
        /\ events[id] = 1
        /\ hist.availWrites[id] = 2

\* the calendar events made for its request since handler p entered
\* schedule_interview
Made(p) == events[Rid(p)] - loc[p].pre[1].events

\* C18: schedule_interview takes the windows in the order they are stored in
\* and stops at the first one that yields a slot: one invocation makes at
\* most one calendar event, for a slot inside that window, and asks the
\* calendar about no window after it.
C18_FirstWindowWins ==
    /\ [](\A p \in Workers :
            loc[p].pre # None =>
                /\ loc[p].windows = LoadAvailability(loc[p].req[1].availability)
                /\ Made(p) \in {0, 1}
                /\ loc[p].queries <= loc[p].i
                /\ loc[p].yielded => loc[p].queries = loc[p].i
                /\ Made(p) = 1 =>
                    LET window == loc[p].windows[loc[p].i]
                    IN  /\ loc[p].yielded
                        /\ loc[p].slot # NoSlot
                        /\ window[1] <= loc[p].slot[1]
                        /\ loc[p].slot[2] <= window[2])
    /\ [][\A p \in Workers :
            (loc[p].pre # None /\ loc'[p].pre # None
                /\ loc'[p].queries # loc[p].queries) =>
                /\ ~loc[p].yielded
                /\ loc[p].i = loc[p].queries + 1
                /\ loc'[p].queries = loc[p].queries + 1]_vars

\* the first window gave no slot, the event is made for the second
C18_Witness ==
    \E p \in Workers :
        /\ pc[p] = "ret"
        /\ loc[p].pre # None
        /\ Made(p) = 1
        /\ loc[p].i = 2
        /\ loc[p].queries = 2

-----------------------------------------------------------------------------
(* Properties of parse_availability *)

\* parse_availability has returned
Parsed == fnResult # NotCalled

\* the list parse_availability returned
Intervals == fnResult[1]

ParseableDate(ent) == ent.label = "DATE" /\ ParseDate(ent.text) # ValueError

\* a TIME entity that names a time of day the interpreter understands
ClockTime(ent) ==
    /\ ent.label = "TIME"
    /\ Lower(ent.text) \notin DOMAIN vague_times
    /\ ParseTime(Lower(ent.text)) # ValueError

\* the time of day of entity t on the date of entity d
At(d, t) == Combine(ParseDate(d.text)[1], ParseTime(Lower(t.text))[1])

\* the entities labelled label before the k-th
Before(text, k, label) == {j \in 1..(k - 1) : text[j].label = label}

Last(S) == CHOOSE j \in S : \A i \in S : i <= j

\* no DATE before the k-th entity, or the last one before it did not parse
DateContextAbsent(text, k) ==
    \/ Before(text, k, "DATE") = {}
    \/ ParseDate(text[Last(Before(text, k, "DATE"))].text) = ValueError

\* C12: a text of a parseable DATE and two parseable times of day t1, t2
\* yields exactly one interval, from t1 to t2 on that date.
C12_RangeYieldsOneInterval ==
    LET text == fnArgs.text
    IN  (/\ Parsed
         /\ Len(text) = 3
         /\ ParseableDate(text[1])
         /\ ClockTime(text[2])
         /\ ClockTime(text[3]))
        => Intervals = << <<At(text[1], text[2]), At(text[1], text[3])>> >>

\* C13: a parseable time of day t met under a date, with no start pending,
\* appends exactly the interval from t to t + 1h and leaves t, with the
\* date, as the pending start; a text of a parseable DATE and one such TIME
\* yields that one interval.
C13_SingleTimeOneHour ==
    /\ [](LET text == fnArgs.text
          IN  (/\ Parsed
               /\ Len(text) = 2
               /\ ParseableDate(text[1])
               /\ ClockTime(text[2]))
              => /\ Intervals = << <<At(text[1], text[2]),
                                    At(text[1], text[2]) + 1>> >>
                 /\ loc.prev_time =
                        <<ParseDate(text[1].text), At(text[1], text[2])>>)
    /\ [][LET text == fnArgs.text
          IN  (/\ fnResult = NotCalled
               /\ pc <= Len(text)
               /\ ~DateContextAbsent(text, pc)
               /\ ClockTime(text[pc])
               /\ loc.prev_time = None)
              => LET d == text[Last(Before(text, pc, "DATE"))]
                     t == At(d, text[pc])
                 IN  /\ loc'.availability =
                            Append(loc.availability, <<t, t + 1>>)
                     /\ loc'.prev_time = <<ParseDate(d.text), t>>]_vars

\* "Tuesday 10 AM" parsed
C13_Witness ==
    /\ Parsed
    /\ fnArgs.text = <<DATE("Tuesday"), TIME("10 AM")>>
    /\ Intervals = << <<34, 35>> >>
    /\ hist.setter = 2

\* C14: a TIME entity met while no date is current (no DATE yet, or the last
\* DATE did not parse) appends nothing and drops the pending start; a text
\* with no TIME entity under a current date yields the empty list.
C14_NoDateNoInterval ==
    /\ [](LET text == fnArgs.text
          IN  (/\ Parsed
               /\ \A k \in 1..Len(text) :
                    text[k].label = "TIME" => DateContextAbsent(text, k))
              => Intervals = <<>>)
    /\ [][LET text == fnArgs.text
          IN  (/\ fnResult = NotCalled
               /\ pc <= Len(text)
               /\ text[pc].label = "TIME"
               /\ DateContextAbsent(text, pc))
              => /\ loc'.availability = loc.availability
                 /\ loc'.prev_time = None]_vars

\* a start was pending when the date was lost, and the next TIME dropped it
C14_Witness ==
    LET text == fnArgs.text
    IN  /\ Parsed
        /\ Len(text) = 4
        /\ ParseableDate(text[1])
        /\ ClockTime(text[2])
        /\ text[3].label = "DATE"
        /\ ParseDate(text[3].text) = ValueError
        /\ text[4].label = "TIME"
        /\ loc.prev_time = None
        /\ Len(Intervals) = 1

\* C16: every interval parse_availability appends has its start before its
\* end, a range whose second time is not after its first included.
C16_StartBeforeEnd ==
    \A k \in 1..Len(loc.availability) :
        loc.availability[k][1] < loc.availability[k][2]

\* C17: a range is appended only when the pending start was set by the TIME
\* entity just before the one that closes it, under the same date: no TIME
\* entity of any kind lies between the two.
C17_RangeFromAdjacentTime ==
    \A r \in 1..Len(hist.ranges) :
        LET rg == hist.ranges[r]
        IN  /\ rg.from # 0
            /\ rg.date = rg.under
            /\ \A j \in (rg.from + 1)..(rg.to - 1) :
                    fnArgs.text[j].label # "TIME"

-----------------------------------------------------------------------------
(* Properties of handlers running side by side *)

\* C15: however the handlers of several replies to one request interleave,
\* at most one calendar event is created for the request and at most one
\* confirmation is sent for it.
C15_OneEventOneConfirmation ==
    \A id \in DOMAIN db : events[id] <= 1 /\ mail[id].confirm <= 1

-----------------------------------------------------------------------------
(* Properties of the server whose calls all come back *)

\* handler p has parsed a reply to a pending request into a list that is
\* not empty
Ingesting(p) ==
    /\ pc[p] = "commit"
    /\ loc[p].parsed # None
    /\ loc[p].parsed[1] # <<>>

\* the request is stored as scheduled and one confirmation went out
EndedScheduled(p) ==
    /\ db[Rid(p)].status = "scheduled"
    /\ mail[Rid(p)].confirm = loc[p].pre[1].mail.confirm + 1
    /\ mail[Rid(p)].noslot = loc[p].pre[1].mail.noslot

\* one "No Available Slots" e-mail went out and the request is pending
EndedNoSlot(p) ==
    /\ db[Rid(p)].status = "pending"
    /\ mail[Rid(p)].noslot = loc[p].pre[1].mail.noslot + 1
    /\ mail[Rid(p)].confirm = loc[p].pre[1].mail.confirm

\* C19: when every call comes back without raising, the handling of a reply
\* to a pending request, parsed into a list that is not empty, comes to its
\* end with exactly one of two outcomes: the request stored as scheduled and
\* a confirmation sent, or a "No Available Slots" e-mail sent and the request
\* still pending.
C19_IngestCompletes ==
    \A p \in Workers :
        Ingesting(p) ~>
            (/\ pc[p] = "ret"
             /\ loc[p].pre # None
             /\ EndedScheduled(p) # EndedNoSlot(p))

\* a reply handled to its end with "No Available Slots" after two windows
C19_Witness ==
    \E p \in Workers :
        /\ pc[p] = "ret"
        /\ loc[p].pre # None
        /\ loc[p].parsed[1] # <<>>
        /\ loc[p].queries = 2
        /\ EndedNoSlot(p)
        /\ ~EndedScheduled(p)

=============================================================================
